---- MODULE Spec2Model ----
(***************************************************************************)
(* ReasonLoop: the execution loop that turns a generated plan (a JSON      *)
(* array of task descriptors) into Task records, runs every ready task     *)
(* through the ability registry with bounded retry, and assembles the      *)
(* final report.                                                           *)
(*                                                                         *)
(* Task, the ability registry, the text-completion ability and the         *)
(* settings are translated from src/.  core/execution_loop.py (the Plan    *)
(* Generator, Dependency Resolver, Context Builder, Executor and Loop      *)
(* Controller) is imported by src/main.py but is not among the sources;    *)
(* those definitions follow spec.md sections 4 and 5.                      *)
(*                                                                         *)
(* Texts are strings.  Python's None is the string None below, which no    *)
(* ability reply, error text or diagnostic equals.                         *)
(***************************************************************************)
EXTENDS Integers, Sequences, FiniteSets, TLC

\* ---------------------------------------------------------------- bounds
\* Largest number of descriptors in a generated plan of the graph family.
MaxTasks == 3

\* ------------------------------------------------------------- constants
\* config/settings.py: Settings._defaults["MAX_RETRIES"].
MAX_RETRIES == 3

None == "<None>"

\* abilities/__init__.py: the names registered at import time.
ABILITY_REGISTRY == {"text-completion", "web-search", "web_scrape"}

\* ------------------------------------------------------------- utilities
Range(s) == {s[i] : i \in DOMAIN s}

\* The tie-break taking the largest id.
Max(S) == CHOOSE x \in S : \A y \in S : x >= y

\* The ascending-id tie-break among ready tasks (4.2).
Min(S) == CHOOSE x \in S : \A y \in S : x <= y

\* dict.pop(key, default) on a descriptor: the value when the key is
\* present, the default otherwise.
Pop(data, key, default) == IF key \in DOMAIN data THEN data[key] ELSE default

\* The keys Task.from_dict pops from the descriptor.
PoppedKeys ==
    {"id", "status", "ability", "dependent_task_ids", "created_at",
     "completed_at", "output", "metadata"}

\* ------------------------------------------------------- models/task.py
\* Task.from_dict with the dependency list never read from the descriptor.
from_dict_no_deps(data) ==
    [id                    |-> data["id"],
     status                |-> Pop(data, "status", "incomplete"),
     ability               |-> Pop(data, "ability", "text-completion"),
     dependent_task_ids    |-> {},
     output                |-> Pop(data, "output", None),
     completed_at          |-> Pop(data, "completed_at", None),
     metadata              |-> Pop(data, "metadata", << >>),
     additional_attributes |-> [k \in (DOMAIN data) \ PoppedKeys |-> data[k]]]

\* Task.from_dict: known fields are popped with their defaults, every
\* remaining key is kept in _additional_attributes.  created_at is a
\* timestamp no decision reads and is left out.
from_dict(data) ==
    [id                    |-> data["id"],
     status                |-> Pop(data, "status", "incomplete"),
     ability               |-> Pop(data, "ability", "text-completion"),
     dependent_task_ids    |-> Pop(data, "dependent_task_ids", {}),
     output                |-> Pop(data, "output", None),
     completed_at          |-> Pop(data, "completed_at", None),
     metadata              |-> Pop(data, "metadata", << >>),
     additional_attributes |-> [k \in (DOMAIN data) \ PoppedKeys |-> data[k]]]

\* Task.mark_complete writing the initial status instead of complete.
mark_complete_incomplete(task, output) ==
    [task EXCEPT !.status = "incomplete", !.output = output, !.completed_at = "now"]

\* Task.mark_complete without the status assignment.
mark_complete_keeps_status(task, output) ==
    [task EXCEPT !.output = output, !.completed_at = "now"]

\* Task.mark_complete without the output assignment.
mark_complete_no_output(task, output) ==
    [task EXCEPT !.status = "complete", !.completed_at = "now"]

\* Task.mark_complete: status, output and completed_at are assigned.
mark_complete(task, output) ==
    [task EXCEPT !.status = "complete", !.output = output, !.completed_at = "now"]

\* ------------------------------------------- abilities/text_completion.py
\* text_completion_ability: every provider function catches its back-end
\* exception and RETURNS an error text; an unknown provider returns an
\* error text too.  The function never raises.
text_completion_ability(prompt, backend, reply) ==
    IF backend = "ok"
    THEN [raised |-> FALSE, value |-> reply]
    ELSE [raised |-> FALSE, value |-> "Error calling Ollama API: " \o reply]

\* abilities/web_search.py is registered by abilities/__init__.py but is not
\* among the sources; it follows the ability contract of spec.md section 1:
\* text on success, an exception on failure.
web_search_ability(prompt, backend, reply) ==
    IF backend = "ok"
    THEN [raised |-> FALSE, value |-> reply]
    ELSE [raised |-> TRUE, value |-> "AbilityError: " \o reply]

\* The registered callable for a name.
call_ability(name, prompt, backend, reply) ==
    IF name = "text-completion"
    THEN text_completion_ability(prompt, backend, reply)
    ELSE web_search_ability(prompt, backend, reply)

\* ----------------------------------------- abilities/ability_registry.py
\* get_ability: the registered callable, or None.
get_ability(name) == IF name \in ABILITY_REGISTRY THEN name ELSE None

\* One record of the prompt/response log (utils/prompt_logger.log_prompt);
\* error is metadata["error"], None on the success path.
LogEntry(prompt, response, name, task_id, error) ==
    [prompt |-> prompt, response |-> response, ability |-> name,
     task_id |-> task_id, error |-> error]

\* Whether the two log_prompt calls of execute_ability return: log_ok[1] the
\* call in the try block, log_ok[2] the call in the except block.
LogOutcomes == {<< a, b >> : a, b \in BOOLEAN}

LogReturns == << TRUE, TRUE >>

\* The exception text of a log_prompt call that raises.
LogError == "LogError"

\* The except block of execute_ability for the exception e: e is logged and
\* re-raised; when log_prompt raises here its exception is what propagates.
except_block(name, prompt, task_id, e, log_ok) ==
    IF log_ok[2]
    THEN [raised |-> TRUE, value |-> e,
          logs |-> << LogEntry(prompt, "ERROR: " \o e, name, task_id, e) >>]
    ELSE [raised |-> TRUE, value |-> LogError, logs |-> << >>]

\* execute_ability: an unregistered name raises ValueError before anything is
\* logged; otherwise the ability is called and its response logged inside
\* one try block, so that an exception of the ability or of log_prompt
\* reaches the except block; the response is returned if neither raised.
execute_ability(name, prompt, task_id, backend, reply, log_ok) ==
    IF get_ability(name) = None
    THEN [raised |-> TRUE, value |-> "Ability not found: " \o name, logs |-> << >>]
    ELSE LET r == call_ability(name, prompt, backend, reply) IN
         IF r.raised
         THEN except_block(name, prompt, task_id, r.value, log_ok)
         ELSE IF log_ok[1]
         THEN [raised |-> FALSE, value |-> r.value,
               logs |-> << LogEntry(prompt, r.value, name, task_id, None) >>]
         ELSE except_block(name, prompt, task_id, LogError, log_ok)

\* ------------------------------------------------------- generated plans
\* The text the plan prompt asks for, per template of utils/prompt_templates.py.

\* default_tasks: id, task, ability, dependent_task_ids, status 'incomplete'.
DefaultDesc(i, deps, ability) ==
    [id |-> i, task |-> "do " \o ToString(i), ability |-> ability,
     dependent_task_ids |-> deps, status |-> "incomplete"]

\* marketing_insights: id, insight, action_item, ..., priority, ability,
\* dependent_insight_ids, status 'ready_to_implement'.
MarketingDesc(i, deps) ==
    [id |-> i, insight |-> "insight " \o ToString(i), priority |-> "high",
     ability |-> "text-completion", dependent_insight_ids |-> deps,
     status |-> "ready_to_implement"]

\* A descriptor with the required id and the instruction only.
MinimalDesc(i) == [id |-> i, task |-> "do " \o ToString(i)]

\* Dependency lists of a plan of n tasks: at most two ids, drawn from the
\* plan's ids and one id that no task of the plan has.
DepChoices(n) ==
    {S \in SUBSET (1..(n + 1)) : \A a, b, c \in S : a = b \/ b = c \/ a = c}

\* Ability names a plan may carry: the default, a second registered ability,
\* and a name that is not registered (the registry spells it web_scrape).
PlanAbilities == {"text-completion", "web-search", "web-scrape"}

\* A plan of the graph family: n tasks with ids 1..n in plan order, the
\* dependency list of each given by deps, one ability name throughout.
GraphPlan(n, deps, ab) ==
    [kind |-> "array", items |-> [i \in 1..n |-> DefaultDesc(i, deps[i], ab)]]

\* Two-task plans (2 after 1) whose descriptors vary in shape.
VariantFirst == {DefaultDesc(1, {}, "web-search"), MarketingDesc(1, {}), MinimalDesc(1)}

VariantSecond ==
    {DefaultDesc(2, {1}, "web-search"), MarketingDesc(2, {1}), MinimalDesc(2),
     [id |-> 2, insight |-> "insight 2", dependent_task_ids |-> {1}]}

VariantPlans ==
    {[kind |-> "array", items |-> << a, b >>] : a \in VariantFirst, b \in VariantSecond}

\* Responses that are not a JSON array: plain text ("not json", or the error
\* text text_completion_ability returns), and the JSON object the
\* propensity_modeling template asks for.
NonArrayResponses ==
    {[kind |-> "text", items |-> << >>], [kind |-> "object", items |-> << >>]}

\* What the back-end answers to attempt n of task id.
Reply(id, n) == "r" \o ToString(id) \o "." \o ToString(n)

Backends == {"ok", "fail"}

\* ------------------------------------- core/execution_loop.py (spec.md 4)
IdsOf(ts) == {t.id : t \in Range(ts)}

TaskOf(ts, id) == CHOOSE t \in Range(ts) : t.id = id

SetTask(ts, new) == [i \in DOMAIN ts |-> IF ts[i].id = new.id THEN new ELSE ts[i]]

\* Concatenation of text[id] over the ids of S in ascending order.
RECURSIVE ConcatAsc(_, _)
ConcatAsc(S, text) ==
    IF S = {} THEN ""
    ELSE text[Min(S)] \o ConcatAsc(S \ {Min(S)}, text)

\* 4.1 Plan Generator: the response parses to an array of descriptors, each
\* mapped to a Task record in descriptor order.
\* The parse check accepting every valid JSON value.
parses_as_array_any_json(resp) == resp.kind # "text"

parses_as_array(resp) == resp.kind = "array"

generate_plan(resp) == [i \in DOMAIN resp.items |-> from_dict(resp.items[i])]

\* 4.2 Dependency Resolver: plan-load checks.
has_dangling(ts) ==
    \E t \in Range(ts) : \E d \in t.dependent_task_ids : d \notin IdsOf(ts)

DepsOfIds(ts, S) ==
    UNION {t.dependent_task_ids : t \in {u \in Range(ts) : u.id \in S}}

RECURSIVE Closure(_, _, _)
Closure(ts, S, k) ==
    IF k = 0 THEN S ELSE Closure(ts, S \cup DepsOfIds(ts, S), k - 1)

has_cycle(ts) ==
    \E t \in Range(ts) : t.id \in Closure(ts, t.dependent_task_ids, Len(ts))

\* 4.2 ready_tasks: incomplete tasks whose every dependency is complete.
ready_tasks(ts) ==
    {t \in Range(ts) :
        /\ t.status = "incomplete"
        /\ \A d \in t.dependent_task_ids :
              \E u \in Range(ts) : u.id = d /\ u.status = "complete"}

running_tasks(ts) == {t \in Range(ts) : t.status = "running"}

\* 4.2 is_stalled.
is_stalled(ts) ==
    /\ running_tasks(ts) = {}
    /\ \E t \in Range(ts) : t.status = "incomplete"
    /\ ready_tasks(ts) = {}

\* The DONE test reading "none is incomplete" only.
all_terminal_none_incomplete(ts) == \A t \in Range(ts) : t.status # "incomplete"

all_terminal(ts) == \A t \in Range(ts) : t.status \in {"complete", "failed"}

\* 4.3 Context Builder.
description(task) ==
    LET a == task.additional_attributes IN
    IF "task" \in DOMAIN a THEN a["task"]
    ELSE IF "insight" \in DOMAIN a THEN a["insight"]
    ELSE ""

build_context(task, ts) ==
    ConcatAsc(task.dependent_task_ids,
              [d \in task.dependent_task_ids |->
                  "[" \o ToString(d) \o "] " \o TaskOf(ts, d).output \o "; "])
    \o description(task)

\* The failed record without the diagnostic.
mark_failed_no_output(task, last_error) == [task EXCEPT !.status = "failed"]

\* 4.4 Executor: the record after retries are exhausted.
mark_failed(task, last_error) ==
    [task EXCEPT !.status = "failed", !.output = "Failed: " \o last_error]

\* 4.5 final report: outputs of the graph sinks in ascending id order.
sinks(ts) ==
    {t.id : t \in {u \in Range(ts) :
                     \A v \in Range(ts) : u.id \notin v.dependent_task_ids}}

final_report(ts) == ConcatAsc(sinks(ts), [id \in sinks(ts) |-> TaskOf(ts, id).output])

\* The diagnostic naming only the tasks that depend on a failed task directly.
blocked_ids_direct(ts) ==
    {t.id : t \in {u \in Range(ts) :
        /\ u.status = "incomplete"
        /\ \E d \in u.dependent_task_ids : TaskOf(ts, d).status = "failed"}}

\* 7 StallError: the ids of the tasks that remain incomplete.
blocked_ids(ts) == {t.id : t \in {u \in Range(ts) : u.status = "incomplete"}}

\* 4.5 overall success, the value run_execution_loop returns at DONE: no
\* graph sink is failed.
run_success(ts) == \A id \in sinks(ts) : TaskOf(ts, id).status # "failed"

\* ---------------------------------------------------------------- main.py
\* main with the success test dropped.
main_summary_always_completed(success) == "Execution completed"

\* main: the execution summary printed for run_execution_loop's result.
main_summary(success) ==
    IF success THEN "Execution completed" ELSE "Execution failed"

\* main: what is printed for an exception that leaves run_execution_loop.
main_error(e) == "Error: " \o e

\* ------------------------------------------- models/task.py, one record
\* The ids of S in ascending order, separated by commas.
RECURSIVE ids_text(_)
ids_text(S) ==
    IF S = {} THEN ""
    ELSE ToString(Min(S)) \o (IF S = {Min(S)} THEN "" ELSE ", ") \o ids_text(S \ {Min(S)})

\* Task.__getattr__, reached for a name that is no field of the dataclass:
\* the additional attribute of that name, AttributeError when there is none.
getattr(t, name) ==
    IF name \in DOMAIN t.additional_attributes
    THEN [raised |-> FALSE, value |-> t.additional_attributes[name]]
    ELSE [raised |-> TRUE, value |-> "AttributeError: " \o name]

\* Task.__str__, the second definition of the class body, which replaces the
\* first: the description is read as self.task.
Task_str(t) ==
    LET d == getattr(t, "task")
        deps == IF t.dependent_task_ids # {}
                THEN " (depends on: [" \o ids_text(t.dependent_task_ids) \o "])"
                ELSE "" IN
    IF d.raised THEN d
    ELSE [raised |-> FALSE,
          value |-> "Task #" \o ToString(t.id) \o ": " \o d.value \o " ["
                    \o t.status \o "] [" \o t.ability \o "]" \o deps]

\* The keys a descriptor may carry and the value it carries for each; the
\* status is the one of the default or of the marketing_insights template.
DescKeys ==
    {"id", "task", "insight", "ability", "status", "dependent_task_ids",
     "priority", "metadata"}

DescValue(k, st) ==
    CASE k = "id" -> 1
      [] k = "task" -> "do 1"
      [] k = "insight" -> "insight 1"
      [] k = "ability" -> "web-search"
      [] k = "status" -> st
      [] k = "dependent_task_ids" -> {2}
      [] k = "priority" -> "high"
      [] k = "metadata" -> [source |-> "plan"]

Descriptors ==
    {[k \in K |-> DescValue(k, st)] :
        K \in SUBSET DescKeys, st \in {"incomplete", "ready_to_implement"}}

\* ------------------------------------------------------ config/settings.py
\* Settings._defaults, the LLM keys.
SettingDefaults ==
    [LLM_PROVIDER      |-> "ollama",
     LLM_MODEL         |-> None,
     LLM_API_URL       |-> None,
     OLLAMA_API_URL    |-> "http://localhost:11434/api/generate",
     OLLAMA_MODEL      |-> "llama2",
     ANTHROPIC_API_URL |-> "https://api.anthropic.com/v1/messages",
     ANTHROPIC_MODEL   |-> "claude-instant-1.2",
     OPENAI_API_URL    |-> "https://api.openai.com/v1/chat/completions",
     OPENAI_MODEL      |-> "gpt-3.5-turbo"]

\* Provider names a caller may pass: the three known ones, one of them in
\* mixed case, and one that has no settings.
Providers == {"ollama", "anthropic", "openai", "OpenAI", "mistral"}

\* str.lower and str.upper on the provider names.
lower(p) == IF p = "OpenAI" THEN "openai" ELSE p

upper(p) ==
    CASE p = "ollama" -> "OLLAMA"
      [] p = "anthropic" -> "ANTHROPIC"
      [] p \in {"openai", "OpenAI"} -> "OPENAI"
      [] p = "mistral" -> "MISTRAL"

\* Python truth of a setting value: None and the empty string are false.
truthy(v) == v # None /\ v # ""

\* dict.get(key), None for a key that is absent.
setting_get(s, key) == IF key \in DOMAIN s THEN s[key] ELSE None

\* Settings._update_provider_settings: LLM_API_URL and LLM_MODEL are taken
\* from the provider's settings when their current value is false.
update_provider_settings(s) ==
    LET provider == lower(s["LLM_PROVIDER"])
        s1 == IF ~truthy(s["LLM_API_URL"])
              THEN [s EXCEPT !["LLM_API_URL"] = setting_get(s, upper(provider) \o "_API_URL")]
              ELSE s IN
    IF ~truthy(s1["LLM_MODEL"])
    THEN [s1 EXCEPT !["LLM_MODEL"] = setting_get(s1, upper(provider) \o "_MODEL")]
    ELSE s1

\* Settings.set.
setting_set(s, key, value) ==
    LET s1 == [s EXCEPT ![key] = value] IN
    IF key = "LLM_PROVIDER" THEN update_provider_settings(s1) ELSE s1

\* What the settings file and the environment may set, and update_setting
\* later: the provider, the two derived keys, and one provider's model.
SettableValues(key) ==
    CASE key = "LLM_PROVIDER" -> Providers
      [] key = "LLM_MODEL" -> {"my-model", ""}
      [] key = "LLM_API_URL" -> {"http://my-host/api"}
      [] key = "OLLAMA_MODEL" -> {"llama3"}

SettableKeys == {"LLM_PROVIDER", "LLM_MODEL", "LLM_API_URL", "OLLAMA_MODEL"}

\* Settings.__init__: the defaults, overridden by file and environment,
\* then _update_provider_settings.
settings_init(overrides) ==
    update_provider_settings(
        [k \in DOMAIN SettingDefaults |->
            IF k \in DOMAIN overrides THEN overrides[k] ELSE SettingDefaults[k]])

\* ------------------------------------------------------------------ state
VARIABLES
    response,     \* the text the plan prompt produced
    lc,           \* Loop Controller state
    error,        \* the plan error that aborted the run, or None
    tasks,        \* the Task records, in descriptor order
    attempts,     \* per task id, ability invocations made so far
    instruction,  \* the composed instruction of the running task
    last_error,   \* error text of the running task's last failed attempt
    log,          \* the prompt/response log
    order,        \* ids in the order their tasks were started
    report,       \* the final report, None until DONE
    blocked,      \* the ids named by the STALLED diagnostic
    summary,      \* what main prints when the run has ended, None before
    descriptor,   \* one plan descriptor handed to Task.from_dict
    record,       \* the Task built from it: a sequence of none or one
    raised,       \* the exception a Task operation raised, or None
    shown,        \* the text str(task) returned, or None
    settings,     \* Settings._settings, the LLM keys
    explicit      \* the keys set by file, environment or update_setting

loopvars ==
    << response, lc, error, tasks, attempts, instruction, last_error, log,
       order, report, blocked, summary >>

taskvars == << descriptor, record, raised, shown >>

setvars == << settings, explicit >>

unitvars == << taskvars, setvars >>

vars == << loopvars, unitvars >>

\* No single descriptor is under study.
TaskIdle ==
    /\ descriptor = << >>
    /\ record = << >>
    /\ raised = None
    /\ shown = None

\* The settings are not under study.
SettingsIdle ==
    /\ settings = << >>
    /\ explicit = {}

\* The response is any dependency graph over 0..MaxTasks tasks, a plan of
\* varied descriptors, or a response that is no array.
Init ==
    /\ \/ \E n \in 0..MaxTasks : \E deps \in [1..n -> DepChoices(n)] :
             \E ab \in PlanAbilities : response = GraphPlan(n, deps, ab)
       \/ response \in VariantPlans
       \/ response \in NonArrayResponses
    /\ lc = "PLANNING"
    /\ error = None
    /\ tasks = << >>
    /\ attempts = << >>
    /\ instruction = None
    /\ last_error = None
    /\ log = << >>
    /\ order = << >>
    /\ report = None
    /\ blocked = {}
    /\ summary = None
    /\ TaskIdle
    /\ SettingsIdle

\* PLANNING: the Plan Generator is called once; a parse failure, a dangling
\* dependency or a cycle aborts the run with an exception that main reports.
Plan ==
    /\ lc = "PLANNING"
    /\ IF ~parses_as_array(response)
       THEN /\ lc' = "ABORTED"
            /\ error' = "PlanParseError"
            /\ summary' = main_error("PlanParseError")
            /\ UNCHANGED << tasks, attempts >>
       ELSE LET ts == generate_plan(response) IN
            /\ tasks' = ts
            /\ attempts' = [id \in IdsOf(ts) |-> 0]
            /\ IF has_dangling(ts) \/ has_cycle(ts)
               THEN /\ lc' = "ABORTED"
                    /\ error' = "PlanGraphError"
                    /\ summary' = main_error("PlanGraphError")
               ELSE /\ lc' = "RUNNING"
                    /\ error' = None
                    /\ summary' = summary
    /\ UNCHANGED << response, instruction, last_error, log, order, report, blocked >>
    /\ UNCHANGED unitvars

\* RUNNING: the ready task with the smallest id is claimed by the Executor:
\* status running, instruction composed from its dependencies' outputs.
StartTask ==
    /\ lc = "RUNNING"
    /\ running_tasks(tasks) = {}
    /\ ready_tasks(tasks) # {}
    /\ LET id == Min({t.id : t \in ready_tasks(tasks)})
           t == TaskOf(tasks, id) IN
       /\ tasks' = SetTask(tasks, [t EXCEPT !.status = "running"])
       /\ instruction' = build_context(t, tasks)
       /\ order' = Append(order, id)
    /\ last_error' = None
    /\ UNCHANGED << response, lc, error, attempts, log, report, blocked, summary >>
    /\ UNCHANGED unitvars

\* One ability invocation of the running task, the log_prompt calls
\* behaving as one of outcomes.  A returned response completes the task; a
\* raised failure is retried while fewer than MAX_RETRIES + 1 attempts were
\* made, and fails the task after that.
AttemptWith(outcomes) ==
    /\ lc = "RUNNING"
    /\ \E t \in running_tasks(tasks) : \E backend \in Backends :
       \E log_ok \in outcomes :
          LET n == attempts[t.id] + 1
              r == execute_ability(t.ability, instruction, t.id, backend,
                                   Reply(t.id, n), log_ok) IN
          /\ attempts' = [attempts EXCEPT ![t.id] = n]
          /\ log' = log \o r.logs
          /\ IF ~r.raised
             THEN /\ tasks' = SetTask(tasks, mark_complete(t, r.value))
                  /\ instruction' = None
                  /\ last_error' = None
             ELSE IF n <= MAX_RETRIES
             THEN /\ tasks' = tasks
                  /\ instruction' = instruction
                  /\ last_error' = r.value
             ELSE /\ tasks' = SetTask(tasks, mark_failed(t, r.value))
                  /\ instruction' = None
                  /\ last_error' = None
    /\ UNCHANGED << response, lc, error, order, report, blocked, summary >>
    /\ UNCHANGED unitvars

\* An attempt with the observability collaborator behaving as 6 requires
\* of it: log_prompt returns.
Attempt == AttemptWith({LogReturns})

\* An attempt in which log_prompt may raise.
AttemptLog == AttemptWith(LogOutcomes)

\* RUNNING, nothing running and nothing ready: DONE when every task is
\* terminal, STALLED when an incomplete task is left; main prints the
\* summary for the returned success value.
Finish ==
    /\ lc = "RUNNING"
    /\ running_tasks(tasks) = {}
    /\ ready_tasks(tasks) = {}
    /\ \/ /\ all_terminal(tasks)
          /\ lc' = "DONE"
          /\ report' = final_report(tasks)
          /\ blocked' = blocked
          /\ summary' = main_summary(run_success(tasks))
       \/ /\ is_stalled(tasks)
          /\ lc' = "STALLED"
          /\ blocked' = blocked_ids(tasks)
          /\ report' = report
          /\ summary' = main_summary(FALSE)
    /\ UNCHANGED << response, error, tasks, attempts, instruction, last_error, log, order >>
    /\ UNCHANGED unitvars

Next == Plan \/ StartTask \/ Attempt \/ Finish

Spec == Init /\ [][Next]_vars

\* The loop is synchronous and every ability invocation returns: a step
\* that can be taken is taken.
FairSpec == Init /\ [][Next]_vars /\ WF_vars(Next)

\* -------------------------------------------- one Task record on its own
\* The loop has not started.
LoopIdle ==
    /\ response = [kind |-> "text", items |-> << >>]
    /\ lc = "PLANNING"
    /\ error = None
    /\ tasks = << >>
    /\ attempts = << >>
    /\ instruction = None
    /\ last_error = None
    /\ log = << >>
    /\ order = << >>
    /\ report = None
    /\ blocked = {}
    /\ summary = None

InitTask ==
    /\ LoopIdle
    /\ SettingsIdle
    /\ descriptor \in Descriptors
    /\ record = << >>
    /\ raised = None
    /\ shown = None

\* Task.from_dict(descriptor); data.pop("id") raises KeyError without an id.
FromDict ==
    /\ record = << >>
    /\ raised = None
    /\ IF "id" \in DOMAIN descriptor
       THEN record' = << from_dict(descriptor) >> /\ raised' = raised
       ELSE raised' = "KeyError: id" /\ record' = record
    /\ UNCHANGED << descriptor, shown, loopvars, setvars >>

\* The Executor claims the task (4.4).
TaskStart ==
    /\ Len(record) = 1
    /\ record[1].status = "incomplete"
    /\ record' = << [record[1] EXCEPT !.status = "running"] >>
    /\ UNCHANGED << descriptor, raised, shown, loopvars, setvars >>

\* The ability returned: Task.mark_complete.
TaskComplete ==
    /\ Len(record) = 1
    /\ record[1].status = "running"
    /\ record' = << mark_complete(record[1], Reply(record[1].id, 1)) >>
    /\ UNCHANGED << descriptor, raised, shown, loopvars, setvars >>

\* Retries exhausted (4.4).
TaskFail ==
    /\ Len(record) = 1
    /\ record[1].status = "running"
    /\ record' = << mark_failed(record[1], "AbilityError: " \o Reply(record[1].id, 1)) >>
    /\ UNCHANGED << descriptor, raised, shown, loopvars, setvars >>

\* str(task), at any point of the task's life.
TaskStr ==
    /\ Len(record) = 1
    /\ raised = None
    /\ shown = None
    /\ LET r == Task_str(record[1]) IN
       IF r.raised
       THEN raised' = r.value /\ shown' = shown
       ELSE shown' = r.value /\ raised' = raised
    /\ UNCHANGED << descriptor, record, loopvars, setvars >>

NextTask == FromDict \/ TaskStart \/ TaskComplete \/ TaskFail \/ TaskStr

\* Task.from_dict and the operations on the Task it returns, for every
\* descriptor over DescKeys.
SpecTask == InitTask /\ [][NextTask]_vars

\* ------------------------------------------------ the settings on their own
\* The singleton is created: file and environment set any of the settable
\* keys.
InitSettings ==
    /\ LoopIdle
    /\ TaskIdle
    /\ \E K \in SUBSET SettableKeys :
          \E overrides \in [K -> UNION {SettableValues(k) : k \in SettableKeys}] :
             /\ \A k \in K : overrides[k] \in SettableValues(k)
             /\ settings = settings_init(overrides)
             /\ explicit = K

\* update_setting("LLM_PROVIDER", p).
UpdateProvider ==
    /\ \E p \in Providers : settings' = setting_set(settings, "LLM_PROVIDER", p)
    /\ explicit' = explicit \cup {"LLM_PROVIDER"}
    /\ UNCHANGED << loopvars, taskvars >>

\* update_setting(key, value) for another key.
UpdateOther ==
    /\ \E key \in SettableKeys \ {"LLM_PROVIDER"} : \E v \in SettableValues(key) :
          /\ settings' = setting_set(settings, key, v)
          /\ explicit' = explicit \cup {key}
    /\ UNCHANGED << loopvars, taskvars >>

NextSettings == UpdateProvider \/ UpdateOther

SpecSettings == InitSettings /\ [][NextSettings]_vars

NextLog == Plan \/ StartTask \/ AttemptLog \/ Finish

\* The runs of the loop with log_prompt raising at any of its calls, for
\* the two-task plans of the three templates and the unparsable responses.
InitLog == Init /\ response \in VariantPlans \cup NonArrayResponses

SpecLog == InitLog /\ [][NextLog]_vars

\* main: what is printed when KeyboardInterrupt leaves run_execution_loop.
main_interrupted == "Execution interrupted by user"

\* 5 cancellation: an interrupt raised during RUNNING stops the loop; the
\* task in its retry sequence, if any, is marked failed, no further task is
\* started, and main reports the interruption.
Interrupt ==
    /\ lc = "RUNNING"
    /\ lc' = "INTERRUPTED"
    /\ tasks' = [i \in DOMAIN tasks |->
                    IF tasks[i].status = "running"
                    THEN mark_failed(tasks[i], "KeyboardInterrupt")
                    ELSE tasks[i]]
    /\ summary' = main_interrupted
    /\ UNCHANGED << response, error, attempts, instruction, last_error, log,
                    order, report, blocked >>
    /\ UNCHANGED unitvars

NextInterrupt == Next \/ Interrupt

\* The runs of the loop with an interrupt possible at any point of RUNNING.
SpecInterrupt == Init /\ [][NextInterrupt]_vars

\* ================================================================ claims
\* The dependency list the plan gives for its i-th descriptor.
PlanDeps(i) == Pop(response.items[i], "dependent_task_ids", {})

PlanIds == {response.items[i]["id"] : i \in DOMAIN response.items}

StatusOfId(id) == TaskOf(tasks, id).status

\* A task that was handed to the Executor or had its ability invoked.
Executed(i) ==
    \/ tasks[i].status \in {"running", "complete", "failed"}
    \/ attempts[tasks[i].id] > 0

\* C1 (ordering): a task that is running, was run, or had its ability invoked
\* has every task of its plan dependency list in status complete.
C1_Ordering ==
    \A i \in DOMAIN tasks :
        Executed(i) =>
            \A d \in PlanDeps(i) : d \in IdsOf(tasks) /\ StatusOfId(d) = "complete"

C1_Witness ==
    \E i \in DOMAIN tasks :
        /\ tasks[i].status = "running"
        /\ attempts[tasks[i].id] > 0
        /\ Cardinality(PlanDeps(i)) > 1

\* The status moves the Task record allows in one step.
C2_Step(a, b) ==
    \/ a = b
    \/ a = "incomplete" /\ b = "running"
    \/ a = "running" /\ b \in {"complete", "failed"}

\* C2 (status transitions): in every step each task's status is unchanged or
\* moves incomplete -> running or running -> complete/failed; an attempt
\* that neither completes the task nor is its last leaves it running.
C2_Transitions ==
    [][\A i \in DOMAIN tasks :
          /\ i \in DOMAIN tasks'
          /\ C2_Step(tasks[i].status, tasks'[i].status)
          /\ (/\ attempts'[tasks[i].id] > attempts[tasks[i].id]
              /\ attempts'[tasks[i].id] <= MAX_RETRIES
              /\ tasks'[i].status # "complete")
             => tasks'[i].status = "running"]_vars

C2_Witness ==
    \E i \in DOMAIN tasks :
        /\ tasks[i].status = "running"
        /\ attempts[tasks[i].id] = MAX_RETRIES
        /\ \E j \in DOMAIN tasks : tasks[j].status = "complete"
        /\ \E j \in DOMAIN tasks : tasks[j].status = "failed"

\* The log holds a successful attempt of task id.
Succeeded(id) == \E e \in Range(log) : e.task_id = id /\ e.error = None

\* C3 (retry bound): no task has more than MAX_RETRIES + 1 attempts, and a
\* task with a logged successful attempt gets no further attempt.
C3_RetryBound ==
    /\ [](\A id \in DOMAIN attempts : attempts[id] <= MAX_RETRIES + 1)
    /\ [][\A id \in DOMAIN attempts : Succeeded(id) => attempts'[id] = attempts[id]]_vars

C3_Witness ==
    \E id \in DOMAIN attempts, other \in DOMAIN attempts :
        /\ attempts[id] = MAX_RETRIES + 1
        /\ StatusOfId(id) = "failed"
        /\ Succeeded(other)
        /\ attempts[other] = MAX_RETRIES + 1
        /\ lc = "DONE"

\* C4 (terminal coverage): at DONE every task is complete or failed.
C4_TerminalCoverage ==
    lc = "DONE" => \A t \in Range(tasks) : t.status \in {"complete", "failed"}

C4_Witness ==
    /\ lc = "DONE"
    /\ \E t \in Range(tasks) : t.status = "complete"
    /\ \E t \in Range(tasks) : t.status = "failed"

\* C5 (stall correctness): a task whose plan dependency list names a failed
\* task is present, incomplete and never started, and the run is RUNNING or
\* has ended STALLED or DONE.
C5_StallCorrectness ==
    \A i \in DOMAIN tasks :
        (\E d \in PlanDeps(i) : d \in IdsOf(tasks) /\ StatusOfId(d) = "failed") =>
            /\ tasks[i].status = "incomplete"
            /\ tasks[i].id \notin Range(order)
            /\ attempts[tasks[i].id] = 0
            /\ lc \in {"RUNNING", "STALLED", "DONE"}

C5_Witness ==
    /\ lc = "STALLED"
    /\ \E i \in DOMAIN tasks :
          /\ tasks[i].status = "incomplete"
          /\ \E d \in PlanDeps(i) : StatusOfId(d) = "failed"
          /\ tasks[i].id \in blocked

\* The plan's dependency lists contain a cycle: some non-empty set of
\* descriptors each depend on a descriptor of the set.
PlanCyclic ==
    \E S \in SUBSET (DOMAIN response.items) :
        /\ S # {}
        /\ \A i \in S : \E j \in S : response.items[j]["id"] \in PlanDeps(i)

PlanDangling == \E i \in DOMAIN response.items : \E d \in PlanDeps(i) : d \notin PlanIds

NoTaskTouched ==
    /\ \A t \in Range(tasks) :
          t.status \notin {"running", "complete", "failed"} /\ t.output = None
    /\ \A id \in DOMAIN attempts : attempts[id] = 0
    /\ log = << >>
    /\ order = << >>

\* C7 (plan graph error): with a cyclic or dangling plan the run is in
\* PLANNING or ABORTED with PlanGraphError, and no task was touched.
C7_PlanGraphError ==
    (response.kind = "array" /\ (PlanCyclic \/ PlanDangling)) =>
        /\ lc \in {"PLANNING", "ABORTED"}
        /\ lc = "ABORTED" => error = "PlanGraphError"
        /\ NoTaskTouched

C7_Witness ==
    /\ lc = "ABORTED"
    /\ error = "PlanGraphError"
    /\ PlanCyclic
    /\ ~PlanDangling
    /\ Len(tasks) = MaxTasks

\* C8 (plan parse error): with a response that is no JSON array the run is
\* in PLANNING or ABORTED with PlanParseError, there is no Task record and
\* no ability was invoked for a task.
C8_PlanParseError ==
    response.kind # "array" =>
        /\ lc \in {"PLANNING", "ABORTED"}
        /\ lc = "ABORTED" => error = "PlanParseError"
        /\ tasks = << >>
        /\ attempts = << >>
        /\ log = << >>

C8_Witness == lc = "ABORTED" /\ error = "PlanParseError" /\ response.kind = "object"

\* The outputs of the plan's sink tasks from position i on, in plan (id) order.
PlanSink(i) ==
    \A j \in DOMAIN response.items : response.items[i]["id"] \notin PlanDeps(j)

RECURSIVE SinkOutputsFrom(_)
SinkOutputsFrom(i) ==
    IF i > Len(tasks) THEN ""
    ELSE (IF PlanSink(i) THEN tasks[i].output ELSE "") \o SinkOutputsFrom(i + 1)

\* C9 (final report): at DONE the report is the sink tasks' outputs in
\* ascending id order and nothing else.
C9_FinalReport == lc = "DONE" => report = SinkOutputsFrom(1)

C9_Witness ==
    /\ lc = "DONE"
    /\ \E i, j \in DOMAIN tasks : i # j /\ PlanSink(i) /\ PlanSink(j)
    /\ \E i \in DOMAIN tasks : ~PlanSink(i)

\* The text of the last failure of task t: the last error the log holds for
\* it, or the registry's message when its ability is not registered.
LastFailure(t) ==
    IF t.ability \notin ABILITY_REGISTRY THEN "Ability not found: " \o t.ability
    ELSE LET idx == {k \in DOMAIN log : log[k].task_id = t.id /\ log[k].error # None}
             last == CHOOSE k \in idx : \A m \in idx : m <= k
         IN  log[last].error

\* C10 (failure containment): a failed task made MAX_RETRIES + 1 attempts and
\* its output is a diagnostic of its last failure; a run in which an ability
\* was invoked is never ABORTED; and when a run with a failed task has ended,
\* no incomplete task has all its dependencies complete.
C10_FailureContained ==
    /\ \A t \in Range(tasks) :
          t.status = "failed" =>
              /\ attempts[t.id] = MAX_RETRIES + 1
              /\ t.output = "Failed: " \o LastFailure(t)
    /\ (\E id \in DOMAIN attempts : attempts[id] > 0) => lc # "ABORTED"
    /\ (lc \notin {"PLANNING", "RUNNING"} /\ \E t \in Range(tasks) : t.status = "failed") =>
          /\ lc \in {"DONE", "STALLED"}
          /\ \A i \in DOMAIN tasks :
                tasks[i].status = "incomplete" =>
                    \E d \in PlanDeps(i) : StatusOfId(d) # "complete"

C10_Witness ==
    /\ lc = "STALLED"
    /\ \E t \in Range(tasks) : t.status = "failed" /\ t.ability = "web-search"
    /\ \E i \in DOMAIN tasks :
          /\ tasks[i].status = "complete"
          /\ Len(order) = MaxTasks - 1
          /\ order[Len(order)] = tasks[i].id

\* The response the log holds for the successful attempt of task id.
SuccessResponse(id) ==
    LET e == CHOOSE x \in Range(log) : x.task_id = id /\ x.error = None
    IN  e.response

\* The instruction text the plan gives for its i-th descriptor.
PlanDescription(i) ==
    LET d == response.items[i] IN
    IF "task" \in DOMAIN d THEN d["task"] ELSE d["insight"]

\* The labeled outputs of the plan dependencies of descriptor i among the
\* descriptors from position k on, in plan (id) order.
RECURSIVE DepOutputsFrom(_, _)
DepOutputsFrom(i, k) ==
    IF k > Len(response.items) THEN ""
    ELSE (IF response.items[k]["id"] \in PlanDeps(i)
          THEN "[" \o ToString(response.items[k]["id"]) \o "] "
               \o SuccessResponse(response.items[k]["id"]) \o "; "
          ELSE "")
         \o DepOutputsFrom(i, k + 1)

ExpectedInstruction(i) == DepOutputsFrom(i, 1) \o PlanDescription(i)

C13_OverallSuccess ==
    /\ summary = "Execution completed" <=>
          (lc = "DONE" /\ \A i \in DOMAIN tasks :
                             PlanSink(i) => tasks[i].status # "failed")
    /\ lc = "DONE" => \A i \in DOMAIN tasks : tasks[i].status = "failed" => PlanSink(i)
    /\ lc \in {"DONE", "STALLED", "ABORTED"} <=> summary # None

C13_Witness ==
    /\ lc = "DONE"
    /\ summary = "Execution failed"
    /\ \E i, j \in DOMAIN tasks :
          /\ PlanSink(i) /\ tasks[i].status = "failed"
          /\ PlanSink(j) /\ tasks[j].status = "complete"

\* After an interrupt the loop starts nothing and changes no task, and the
\* task that was in its retry sequence is failed.
C14_StoppedAfterInterrupt ==
    [][/\ lc = "INTERRUPTED" => UNCHANGED << lc, tasks, attempts, order, log >>
       /\ (lc = "RUNNING" /\ lc' = "INTERRUPTED") =>
             \A i \in DOMAIN tasks :
                 tasks'[i].status = (IF tasks[i].status = "running"
                                     THEN "failed" ELSE tasks[i].status)]_vars

\* C14 (cancellation): after an interrupt raised during RUNNING no task is
\* running and every task has status incomplete, complete or failed.
C14_Cancellation ==
    lc = "INTERRUPTED" =>
        \A t \in Range(tasks) : t.status \in {"incomplete", "complete", "failed"}

\* C15 (observability failures): the outcome of an attempt of a registered
\* ability is the outcome of the ability function, whatever log_prompt does:
\* a returned result completes the task with that result, and only an
\* exception of the ability function leaves the task running or failed.
C15_LoggingFailureContained ==
    [][\A i \in DOMAIN tasks :
          (/\ tasks[i].status = "running"
           /\ attempts'[tasks[i].id] > attempts[tasks[i].id]
           /\ get_ability(tasks[i].ability) # None)
          => \E backend \in Backends :
                LET r == call_ability(tasks[i].ability, instruction, backend,
                                      Reply(tasks[i].id, attempts'[tasks[i].id])) IN
                IF r.raised
                THEN /\ tasks'[i].status # "complete"
                     /\ \/ last_error' = r.value
                        \/ tasks'[i].output = "Failed: " \o r.value
                ELSE tasks'[i] = mark_complete(tasks[i], r.value)]_vars

\* The positions of the log that report an attempt of task t: its id, its
\* ability name, the instruction, and a response or an error.
LoggedAttempts(t) ==
    {k \in DOMAIN log : /\ log[k].task_id = t.id
                        /\ log[k].ability = t.ability
                        /\ log[k].prompt # None
                        /\ log[k].response # None}

\* C16 (attempts are logged): the prompt/response log holds exactly one
\* entry for every ability invocation attempt of every task, an attempt with
\* an unregistered ability name included.
C16_EveryAttemptLogged ==
    \A t \in Range(tasks) : Cardinality(LoggedAttempts(t)) = attempts[t.id]

\* C17 (sequential execution): at most one task is running, and every task
\* started before the most recently started one is complete or failed.
C17_Sequential ==
    /\ Cardinality({i \in DOMAIN tasks : tasks[i].status = "running"}) <= 1
    /\ \A k \in 1..(Len(order) - 1) : StatusOfId(order[k]) \in {"complete", "failed"}
    /\ \A i \in DOMAIN tasks :
          tasks[i].status = "running" => order[Len(order)] = tasks[i].id

C17_Witness ==
    /\ Len(order) = 3
    /\ StatusOfId(order[3]) = "running"
    /\ StatusOfId(order[1]) = "complete" /\ attempts[order[1]] = MAX_RETRIES + 1
    /\ StatusOfId(order[2]) = "failed"
    /\ attempts[order[3]] > 1

\* The ready tasks of the plan: incomplete, every id of the plan dependency
\* list complete.
PlanReady ==
    {i \in DOMAIN tasks :
        /\ tasks[i].status = "incomplete"
        /\ \A d \in PlanDeps(i) : d \in PlanIds /\ StatusOfId(d) = "complete"}

\* C18 (ascending id among ready tasks): a task is started only when it is
\* plan-ready, and no plan-ready task has a smaller id than the started one.
C18_SmallestReadyFirst ==
    [][\A i \in DOMAIN tasks :
          (tasks[i].status # "running" /\ tasks'[i].status = "running")
          => /\ i \in PlanReady
             /\ \A j \in PlanReady : tasks[i].id <= tasks[j].id]_vars

\* Task 2, ready only since task 1 completed, was started before task 3,
\* which was ready from the beginning and is still waiting.
C18_Witness ==
    /\ Len(tasks) = 3
    /\ order = << 1, 2 >>
    /\ PlanDeps(1) = {} /\ PlanDeps(2) = {1} /\ PlanDeps(3) = {}
    /\ StatusOfId(2) = "running"
    /\ 3 \in {tasks[j].id : j \in PlanReady}

\* The stall condition on the plan: nothing running, a task incomplete, no
\* task plan-ready.
PlanStalled ==
    /\ \A i \in DOMAIN tasks : tasks[i].status # "running"
    /\ \E i \in DOMAIN tasks : tasks[i].status = "incomplete"
    /\ PlanReady = {}

\* C19 (stall): a run that is STALLED satisfies the stall condition and its
\* diagnostic names exactly the incomplete tasks; a RUNNING loop in the
\* stall condition can only end STALLED, and a loop outside it never does.
C19_Stall ==
    /\ [](lc = "STALLED" =>
             /\ PlanStalled
             /\ blocked = {tasks[i].id : i \in {j \in DOMAIN tasks :
                                                  tasks[j].status = "incomplete"}})
    /\ [][lc = "RUNNING" =>
             /\ PlanStalled => lc' \in {"RUNNING", "STALLED"}
             /\ lc' = "STALLED" => PlanStalled]_vars
    /\ [][lc = "RUNNING" /\ PlanStalled /\ lc' = "RUNNING" => UNCHANGED vars]_vars

\* Scenario 2 with a second blocked task: task 1 failed all its attempts,
\* task 2 depends on it and task 3 on task 2; the run is STALLED naming both.
C19_Witness ==
    /\ lc = "STALLED"
    /\ Len(tasks) = 3
    /\ StatusOfId(1) = "failed" /\ attempts[1] = MAX_RETRIES + 1
    /\ PlanDeps(2) = {1} /\ PlanDeps(3) = {2}
    /\ blocked = {2, 3}

\* C20 (termination): every run reaches DONE, STALLED or ABORTED, and a run
\* that reached one of them stays in it.
C20_Termination ==
    /\ <>(lc \in {"DONE", "STALLED", "ABORTED"})
    /\ [][(lc \in {"DONE", "STALLED", "ABORTED"}) => (lc' = lc)]_vars

\* C21 (initial status): every task has status incomplete, running,
\* complete or failed, and before the first task is started every task of
\* the plan is incomplete, whatever status its descriptor carries.
C21_InitialStatus ==
    /\ \A t \in Range(tasks) :
          t.status \in {"incomplete", "running", "complete", "failed"}
    /\ (lc = "RUNNING" /\ order = << >>) =>
          \A t \in Range(tasks) : t.status = "incomplete"

\* The descriptor keys that are fields of the Task Record (3), the
\* instruction keys included.
CoreKeys ==
    {"id", "task", "insight", "ability", "status", "dependent_task_ids",
     "output", "metadata"}

\* C22 (descriptor mapping): no Task is built from a descriptor without id;
\* a Task built from a descriptor has its id, the ability text-completion
\* when the descriptor names none, and every other key of the descriptor in
\* its metadata, in every later state of the task.
C22_DescriptorMapping ==
    /\ "id" \notin DOMAIN descriptor => record = << >>
    /\ Len(record) = 1 =>
          /\ record[1].id = descriptor["id"]
          /\ "ability" \notin DOMAIN descriptor => record[1].ability = "text-completion"
          /\ \A k \in (DOMAIN descriptor) \ CoreKeys :
                /\ k \in DOMAIN record[1].metadata
                /\ record[1].metadata[k] = descriptor[k]

\* C23 (instruction extraction): for a Task whose descriptor carries the
\* instruction under "task" or under "insight", the description is that
\* text and no operation on the task, str(task) included, has raised.
C23_InstructionExtracted ==
    (Len(record) = 1 /\ {"task", "insight"} \cap DOMAIN descriptor # {}) =>
        /\ description(record[1]) = (IF "task" \in DOMAIN descriptor
                                     THEN descriptor["task"]
                                     ELSE descriptor["insight"])
        /\ raised = None

\* C24 (back-end failures): the output of a complete task is the answer
\* the back-end gave to its last attempt, never the text of a back-end
\* failure.
C24_BackendFailureSurfaces ==
    \A t \in Range(tasks) :
        t.status = "complete" => t.output = Reply(t.id, attempts[t.id])

\* C25 (settings consistency): while nothing but the provider was ever set
\* explicitly, LLM_MODEL and LLM_API_URL are the current provider's model
\* and URL settings.
C25_SettingsConsistency ==
    explicit \subseteq {"LLM_PROVIDER"} =>
        LET P == upper(lower(settings["LLM_PROVIDER"])) IN
        /\ settings["LLM_MODEL"] = setting_get(settings, P \o "_MODEL")
        /\ settings["LLM_API_URL"] = setting_get(settings, P \o "_API_URL")

====
